---- MODULE Spec2Model ----
(***************************************************************************)
(* Model of the MKB-10 scraper (mkb_scrape/scraper.py).                    *)
(*                                                                         *)
(* Text is a sequence of characters; a character is a one-character        *)
(* string.  Characters outside ASCII are written by name, each name one    *)
(* character: "S_caron" (U+0160), "s_caron" (U+0161), "A_ring" (U+00C5),   *)
(* "a_ring" (U+00E5), "inv_excl" (U+00A1).                                 *)
(***************************************************************************)
EXTENDS Integers, Sequences, FiniteSets, TLC

VARIABLES
    pc,         \* position of the run's single control flow
    delay,      \* MKBScraper.delay
    entries,    \* scrape: the accumulator `entries`
    pages,      \* scrape: the list `pages` returned by _discover_detail_pages
    idx,        \* scrape: index of the next element of `pages`
    fetchLog,   \* every session.get issued, in order
    slept,      \* time slept since the last fetch returned
    parseLog,   \* one record per call of _parse_entries
    result,     \* what scrape returned: <<>> (nothing) or <<list>>
    csv,        \* the output file: <<>> (absent) or <<rows>>
    input,      \* argument of the function under check (function specifications)
    output      \* its return value: <<>> (not yet called) or <<value>>

vars == <<pc, delay, entries, pages, idx, fetchLog, slept, parseLog, result, csv,
          input, output>>

----------------------------------------------------------------------------
(* Characters *)

UpperLetters ==
    {"A","B","C","D","E","F","G","H","I","J","K","L","M",
     "N","O","P","Q","R","S","T","U","V","W","X","Y","Z"}

Digits == {"0","1","2","3","4","5","6","7","8","9"}

\* What \s matches among the characters of the model.
Whitespace == {" ", "\t", "\n"}

\* Printable ASCII in code point order, from U+0020 ("dquote", "backslash" and
\* "backtick" name the characters U+0022, U+005C and U+0060).
AsciiTable ==
    <<" ","!","dquote","#","$","%","&","'","(",")","*","+",",","-",".","/",
      "0","1","2","3","4","5","6","7","8","9",":",";","<","=",">","?",
      "@","A","B","C","D","E","F","G","H","I","J","K","L","M","N","O",
      "P","Q","R","S","T","U","V","W","X","Y","Z","[","backslash","]","^","_",
      "backtick","a","b","c","d","e","f","g","h","i","j","k","l","m","n","o",
      "p","q","r","s","t","u","v","w","x","y","z","{","|","}","~">>

\* Python compares strings by code point.
CodePoint(c) ==
    CASE c = "\t" -> 9
      [] c = "\n" -> 10
      [] c = "inv_excl" -> 161
      [] c = "A_ring" -> 197
      [] c = "a_ring" -> 229
      [] c = "S_caron" -> 352
      [] c = "s_caron" -> 353
      [] OTHER -> 31 + (CHOOSE i \in 1..Len(AsciiTable) : AsciiTable[i] = c)

\* str.lower() of one character.
LowerChar(c) ==
    CASE c = "S_caron" -> "s_caron"
      [] c = "A_ring" -> "a_ring"
      [] c \in UpperLetters -> AsciiTable[CodePoint(c) - 31 + 32]
      [] OTHER -> c

----------------------------------------------------------------------------
(* str operations *)

Lower(s) == [i \in 1..Len(s) |-> LowerChar(s[i])]

StartsWith(s, p) == Len(s) >= Len(p) /\ SubSeq(s, 1, Len(p)) = p

\* needle in s
Contains(s, needle) ==
    \E i \in 1..(Len(s) - Len(needle) + 1) : SubSeq(s, i, i + Len(needle) - 1) = needle

\* s.rstrip(chars)
RECURSIVE RStrip(_, _)
RStrip(s, chars) ==
    IF s # <<>> /\ s[Len(s)] \in chars THEN RStrip(SubSeq(s, 1, Len(s) - 1), chars) ELSE s

\* s.lstrip(chars)
RECURSIVE LStrip(_, _)
LStrip(s, chars) ==
    IF s # <<>> /\ s[1] \in chars THEN LStrip(Tail(s), chars) ELSE s

\* s.strip()
Strip(s) == LStrip(RStrip(s, Whitespace), Whitespace)

\* Lexicographic comparison of two strings by code point: s < t.
RECURSIVE StrLess(_, _)
StrLess(s, t) ==
    IF t = <<>> THEN FALSE
    ELSE IF s = <<>> THEN TRUE
    ELSE IF s[1] = t[1] THEN StrLess(Tail(s), Tail(t))
    ELSE CodePoint(s[1]) < CodePoint(t[1])

\* Index of the first character of s that is in cs, 0 if there is none.
FirstIn(s, cs) ==
    IF \E i \in 1..Len(s) : s[i] \in cs
    THEN CHOOSE i \in 1..Len(s) : s[i] \in cs /\ \A j \in 1..(i - 1) : s[j] \notin cs
    ELSE 0

\* Index of the last character of s that is c, 0 if there is none.
LastIndexOf(s, c) ==
    IF \E i \in 1..Len(s) : s[i] = c
    THEN CHOOSE i \in 1..Len(s) : s[i] = c /\ \A j \in (i + 1)..Len(s) : s[j] # c
    ELSE 0

\* Length of the longest prefix of s made of characters of cs.
RECURSIVE RunLen(_, _)
RunLen(s, cs) == IF s # <<>> /\ s[1] \in cs THEN 1 + RunLen(Tail(s), cs) ELSE 0

\* s.split(sep) for a one-character separator; i is the index of the first sep in s.
RECURSIVE SplitAt(_, _, _)
SplitAt(s, sep, i) ==
    IF i = 0 THEN <<s>>
    ELSE <<SubSeq(s, 1, i - 1)>>
         \o SplitAt(SubSeq(s, i + 1, Len(s)), sep, FirstIn(SubSeq(s, i + 1, Len(s)), {sep}))

Split(s, sep) == SplitAt(s, sep, FirstIn(s, {sep}))

\* sep.join(parts)
RECURSIVE Join(_, _)
Join(parts, sep) ==
    IF parts = <<>> THEN <<>>
    ELSE IF Len(parts) = 1 THEN parts[1]
    ELSE parts[1] \o <<sep>> \o Join(Tail(parts), sep)

\* s.splitlines(), for the line break "\n": no empty last line after a final break.
SplitLines(s) ==
    IF s = <<>> THEN <<>>
    ELSE IF s[Len(s)] = "\n" THEN Split(SubSeq(s, 1, Len(s) - 1), "\n")
    ELSE Split(s, "\n")

----------------------------------------------------------------------------
(* _normalize_text, _is_code *)

Amp == <<"&","a","m","p",";">>

\* html.unescape, for the entity &amp; (the one entity of the model's texts).
RECURSIVE unescape(_)
unescape(s) ==
    IF s = <<>> THEN <<>>
    ELSE IF StartsWith(s, Amp) THEN <<"&">> \o unescape(SubSeq(s, Len(Amp) + 1, Len(s)))
    ELSE <<s[1]>> \o unescape(Tail(s))

\* re.sub(r"\s+", " ", s)
RECURSIVE CollapseWs(_)
CollapseWs(s) ==
    IF s = <<>> THEN <<>>
    ELSE IF s[1] \in Whitespace THEN <<" ">> \o CollapseWs(LStrip(s, Whitespace))
    ELSE <<s[1]>> \o CollapseWs(Tail(s))

_normalize_text(value) == Strip(CollapseWs(unescape(value)))

\* A mutated _is_code: the digit group is not checked for its length.
_is_code_anydigits(value) ==
    \E n \in 1..2 : \E d \in 1..3 :
        /\ Len(value) >= n + d
        /\ \A i \in 1..n : value[i] \in UpperLetters
        /\ \A i \in (n + 1)..(n + d) : value[i] \in Digits
        /\ \/ Len(value) = n + d
           \/ /\ Len(value) >= n + d + 2
              /\ Len(value) <= n + d + 5
              /\ value[n + d + 1] = "."
              /\ \A i \in (n + d + 2)..Len(value) : value[i] \in Digits \cup UpperLetters

\* re.fullmatch(r"[A-Z]{1,2}\d{2}(?:\.[0-9A-Z]{1,4})?", value)
_is_code(value) ==
    \E n \in 1..2 :
        /\ Len(value) >= n + 2
        /\ \A i \in 1..n : value[i] \in UpperLetters
        /\ \A i \in (n + 1)..(n + 2) : value[i] \in Digits
        /\ \/ Len(value) = n + 2
           \/ /\ Len(value) >= n + 4
              /\ Len(value) <= n + 7
              /\ value[n + 3] = "."
              /\ \A i \in (n + 4)..Len(value) : value[i] \in Digits \cup UpperLetters

----------------------------------------------------------------------------
(* MKBEntry, _deduplicate, _code_sort_key, sorted *)

MKBEntry(code, serbian, latin) == [code |-> code, serbian |-> serbian, latin |-> latin]

\* Position of the record for `code` in the dict `seen` (kept in insertion order), 0 if absent.
SeenIndex(seen, code) ==
    IF \E i \in 1..Len(seen) : seen[i].code = code
    THEN CHOOSE i \in 1..Len(seen) : seen[i].code = code
    ELSE 0

\* x or y, for strings
StrOr(x, y) == IF x # <<>> THEN x ELSE y

\* The else branch of _deduplicate's loop body.
Merge(existing, entry) ==
    MKBEntry(entry.code, StrOr(entry.serbian, existing.serbian), StrOr(entry.latin, existing.latin))

\* One iteration of _deduplicate's loop; i is the position of entry.code in seen.
DedupAt(seen, entry, i) ==
    IF i = 0 THEN Append(seen, entry)
    ELSE [seen EXCEPT ![i] = Merge(seen[i], entry)]

\* A mutated loop body: every entry is stored, as if its code had not been seen.
DedupStepNoCheck(seen, entry) == Append(seen, entry)

DedupStep(seen, entry) == DedupAt(seen, entry, SeenIndex(seen, entry.code))

RECURSIVE DedupFrom(_, _)
DedupFrom(seen, es) ==
    IF es = <<>> THEN seen ELSE DedupFrom(DedupStep(seen, Head(es)), Tail(es))

_deduplicate(es) == DedupFrom(<<>>, es)

\* int(number) for a string of decimal digits
RECURSIVE IntOf(_)
IntOf(ds) ==
    IF ds = <<>> THEN 0
    ELSE 10 * IntOf(SubSeq(ds, 1, Len(ds) - 1)) + (CodePoint(ds[Len(ds)]) - CodePoint("0"))

SortKey(prefix, number, suffix) == [prefix |-> prefix, number |-> number, suffix |-> suffix]

\* The optional group (?:\.([0-9A-Z]+))? against what follows the digits, to the end.
SuffixMatches(rest) ==
    \/ rest = <<>>
    \/ /\ Len(rest) >= 2
       /\ rest[1] = "."
       /\ \A i \in 2..Len(rest) : rest[i] \in Digits \cup UpperLetters

\* _code_sort_key with the groups located: p letters, then d digits, then rest.
KeyOfGroups(code, p, d, rest) ==
    IF p >= 1 /\ d >= 1 /\ SuffixMatches(rest)
    THEN SortKey(SubSeq(code, 1, p), IntOf(SubSeq(code, p + 1, p + d)),
                 IF rest = <<>> THEN <<>> ELSE Tail(rest))
    ELSE SortKey(code, 0, <<>>)

KeyOfLetters(code, p) ==
    KeyOfGroups(code, p, RunLen(SubSeq(code, p + 1, Len(code)), Digits),
                SubSeq(code, p + 1 + RunLen(SubSeq(code, p + 1, Len(code)), Digits), Len(code)))

\* A mutated key: the code is not parsed, and the digits are compared as text.
SortKeyLexical(code) == SortKey(code, 0, <<>>)

\* _code_sort_key: re.fullmatch(r"([A-Z]+)(\d+)(?:\.([0-9A-Z]+))?", code).  A letter
\* cannot follow the letter group nor a digit the digit group, so both groups are
\* the longest runs.
_code_sort_key(code) == KeyOfLetters(code, RunLen(code, UpperLetters))

\* Python's comparison of two key tuples (str, int, str): a < b.
KeyLess(a, b) ==
    \/ StrLess(a.prefix, b.prefix)
    \/ a.prefix = b.prefix /\ a.number < b.number
    \/ a.prefix = b.prefix /\ a.number = b.number /\ StrLess(a.suffix, b.suffix)

\* Insert x into the sorted list s after every element whose key is not greater
\* (sorted is stable).
RECURSIVE InsertByKey(_, _)
InsertByKey(s, x) ==
    IF s = <<>> THEN <<x>>
    ELSE IF KeyLess(_code_sort_key(x.code), _code_sort_key(s[1].code))
         THEN <<x>> \o s
         ELSE <<s[1]>> \o InsertByKey(Tail(s), x)

RECURSIVE SortFrom(_, _)
SortFrom(acc, es) ==
    IF es = <<>> THEN acc ELSE SortFrom(InsertByKey(acc, Head(es)), Tail(es))

\* sorted(es, key=lambda entry: _code_sort_key(entry.code))
SortedEntries(es) == SortFrom(<<>>, es)

----------------------------------------------------------------------------
(* The parsed page (the BeautifulSoup object), as the traversals of the code see it:
     tables   : soup.find_all("table"); a table is table.find_all("tr"), a row is
                the cell.get_text(" ", strip=True) of its row.find_all(["td", "th"])
     tags     : the tags of the document; a tag has its name, its class list and
                desc, its find_all(True), each descendant with its class list and
                its get_text(" ", strip=True)
     text     : soup.get_text("\n", strip=True)
     anchors  : the href of each soup.find_all("a", href=True)                      *)

Soup(tables, tags, text, anchors) ==
    [tables |-> tables, tags |-> tags, text |-> text, anchors |-> anchors]

\* The literal of line 132, as the source file's bytes decode under UTF-8.
HeaderWord == <<"A_ring","inv_excl","i","f","r","a">>

\* The body of _parse_from_tables's inner loop from line 132 on: the entries a row
\* with these (normalized) cells adds.
TableCells(cells) ==
    IF cells = <<>> \/ \E i \in 1..Len(cells) : Contains(Lower(cells[i]), HeaderWord)
    THEN <<>>
    ELSE IF Len(cells) < 2 THEN <<>>
    ELSE IF ~_is_code(cells[1]) THEN <<>>
    ELSE <<MKBEntry(cells[1], cells[2], IF Len(cells) >= 3 THEN cells[3] ELSE <<>>)>>

TableRow(row) == TableCells([i \in 1..Len(row) |-> _normalize_text(row[i])])

RECURSIVE TableRows(_)
TableRows(rows) ==
    IF rows = <<>> THEN <<>> ELSE TableRow(Head(rows)) \o TableRows(Tail(rows))

RECURSIVE TablesFrom(_)
TablesFrom(tables) ==
    IF tables = <<>> THEN <<>> ELSE TableRows(Head(tables)) \o TablesFrom(Tail(tables))

_parse_from_tables(soup) == TablesFrom(soup.tables)

\* any(sub in cls for sub in class_substrings for cls in class_list)
ClassMatches(classes, class_substrings) ==
    \E i \in 1..Len(classes) : \E sub \in class_substrings : Contains(Lower(classes[i]), sub)

\* The first of a set of indices, 0 for the empty set.
FirstOf(hits) == IF hits = {} THEN 0 ELSE CHOOSE i \in hits : \A j \in hits : i <= j

\* _find_first_matching: the index in container.desc of the descendant found, 0 for
\* None; `exclude` is the index of the excluded descendant (0: none excluded).
_find_first_matching(container, class_substrings, exclude) ==
    FirstOf({i \in 1..Len(container.desc) :
                i # exclude /\ ClassMatches(container.desc[i].class, class_substrings)})

CodeMarkers == {<<"s","i","f","r","a">>, <<"c","o","d","e">>, <<"o","z","n","a","k","a">>}
SerbianMarkers == {<<"s","r">>, <<"o","p","i","s">>, <<"n","a","z","i","v">>}
LatinMarkers == {<<"l","a","t">>, <<"l","a","t","i","n">>}
MkbMarker == <<"m","k","b">>

\* The lambda of soup.find_all in _parse_from_structured_blocks.
IsCandidate(tag) ==
    /\ tag.name \in {"div", "li"}
    /\ tag.class # <<>>
    /\ \E i \in 1..Len(tag.class) : Contains(Lower(tag.class[i]), MkbMarker)

\* _normalize_text(element.get_text(" ", strip=True)) if element else ""
ElementText(container, element) ==
    IF element # 0 THEN _normalize_text(container.desc[element].text) ELSE <<>>

\* Lines 167-180, the three elements found.
BlockOf(container, code_text, serbian_element, latin_element) ==
    IF ~_is_code(code_text) THEN <<>>
    ELSE <<MKBEntry(code_text, ElementText(container, serbian_element),
                    ElementText(container, latin_element))>>

\* Lines 156-166, the code element found.
BlockWithCode(container, code_element) ==
    BlockOf(container, ElementText(container, code_element),
            _find_first_matching(container, SerbianMarkers, code_element),
            _find_first_matching(container, LatinMarkers, code_element))

\* The body of _parse_from_structured_blocks's loop: the entries one container adds.
Block(container) == BlockWithCode(container, _find_first_matching(container, CodeMarkers, 0))

RECURSIVE BlocksFrom(_)
BlocksFrom(tags) ==
    IF tags = <<>> THEN <<>>
    ELSE (IF IsCandidate(Head(tags)) THEN Block(Head(tags)) ELSE <<>>) \o BlocksFrom(Tail(tags))

_parse_from_structured_blocks(soup) == BlocksFrom(soup.tags)

\* The group `code` of the pattern of line 186, matched against a whole token.
CodeGroupMatches(token) ==
    \E n \in 1..2 :
        /\ Len(token) >= n + 2
        /\ \A i \in 1..n : token[i] \in UpperLetters
        /\ \A i \in (n + 1)..(n + 2) : token[i] \in Digits
        /\ \/ Len(token) = n + 2
           \/ /\ Len(token) >= n + 4
              /\ Len(token) <= n + 7
              /\ token[n + 3] = "."
              /\ \A i \in (n + 4)..Len(token) : token[i] \in Digits \cup UpperLetters

\* \s+(?P<rest>.+)$ against `after`, which starts with w whitespace characters: \s+
\* takes the whole run, and gives its last character back to `rest` when the run
\* ends the line.
RestOf(code, after, w) ==
    IF w < Len(after) THEN <<[code |-> code, rest |-> SubSeq(after, w + 1, Len(after))]>>
    ELSE IF w >= 2 THEN <<[code |-> code, rest |-> <<after[w]>>]>>
    ELSE <<>>

\* The match, k the index of the line's first whitespace character.
LineMatchAt(line, k) ==
    IF k = 0 \/ ~CodeGroupMatches(SubSeq(line, 1, k - 1)) THEN <<>>
    ELSE RestOf(SubSeq(line, 1, k - 1), SubSeq(line, k, Len(line)),
                RunLen(SubSeq(line, k, Len(line)), Whitespace))

\* pattern.match(line) for ^(?P<code>...)\s+(?P<rest>.+)$ : <<>> for no match, else
\* <<[code, rest]>>.  The code group holds no whitespace and \s+ follows it, so the
\* group is the text before the line's first whitespace.
LineMatch(line) == LineMatchAt(line, FirstIn(line, Whitespace))

\* Index where the first run of two or more whitespace characters of s starts, 0 if
\* there is none.
FirstGap(s) ==
    IF \E i \in 1..(Len(s) - 1) : s[i] \in Whitespace /\ s[i + 1] \in Whitespace
    THEN CHOOSE i \in 1..(Len(s) - 1) :
            /\ s[i] \in Whitespace /\ s[i + 1] \in Whitespace
            /\ \A j \in 1..(i - 1) : ~(s[j] \in Whitespace /\ s[j + 1] \in Whitespace)
    ELSE 0

\* The first alternative, \s{2,}\|\s{2,}, at a run of r whitespace characters that
\* starts s: its length when a pipe and r2 >= 2 more whitespace characters follow
\* the run, else the length of the second alternative, \s{2,}: the run.
PipeDelimiterLen(s, r, r2) ==
    IF Len(s) > r /\ s[r + 1] = "|" /\ r2 >= 2 THEN r + 1 + r2 ELSE r

DelimiterAfterRun(s, r) == PipeDelimiterLen(s, r, RunLen(SubSeq(s, r + 2, Len(s)), Whitespace))

\* A mutated delimiter: the pattern lacks its first alternative and is \s{2,} alone.
DelimiterLenNoPipe(s) == RunLen(s, Whitespace)

\* Length of the delimiter re.split finds at the whitespace run that starts s.
DelimiterLen(s) == DelimiterAfterRun(s, RunLen(s, Whitespace))

\* re.split(r"\s{2,}\|\s{2,}|\s{2,}", s), g the index of the first delimiter in s.
RECURSIVE ReSplit(_)
ReSplitAt(s, g) ==
    IF g = 0 THEN <<s>>
    ELSE <<SubSeq(s, 1, g - 1)>> \o ReSplit(SubSeq(s, g + DelimiterLen(SubSeq(s, g, Len(s))), Len(s)))

ReSplit(s) == ReSplitAt(s, FirstGap(s))

\* [part.strip() for part in pieces if part.strip()]
RECURSIVE StripNonEmpty(_)
StripNonEmpty(pieces) ==
    IF pieces = <<>> THEN <<>>
    ELSE (IF Strip(Head(pieces)) # <<>> THEN <<Strip(Head(pieces))>> ELSE <<>>)
         \o StripNonEmpty(Tail(pieces))

\* Lines 194-196.
EntryOfParts(code, parts) ==
    MKBEntry(code, IF parts # <<>> THEN parts[1] ELSE <<>>,
             IF Len(parts) > 1 THEN parts[2] ELSE <<>>)

\* Lines 189-196, m the match.
TextLineOf(m) ==
    IF m = <<>> THEN <<>> ELSE <<EntryOfParts(m[1].code, StripNonEmpty(ReSplit(m[1].rest)))>>

\* The body of _parse_from_text_blocks's loop: the entries one line adds.
TextLine(line) == TextLineOf(LineMatch(line))

RECURSIVE TextLines(_)
TextLines(lines) ==
    IF lines = <<>> THEN <<>> ELSE TextLine(Head(lines)) \o TextLines(Tail(lines))

_parse_from_text_blocks(soup) == TextLines(SplitLines(soup.text))

Parsed(es, invoked) == [entries |-> es, invoked |-> invoked]

\* Lines 121-122.
ParseTextTier(soup) ==
    Parsed(_parse_from_text_blocks(soup), <<"tables", "structured_blocks", "text_blocks">>)

\* Lines 118-120, b the structured-block strategy's entries.
ParseBlockTier(soup, b) ==
    IF b # <<>> THEN Parsed(b, <<"tables", "structured_blocks">>) ELSE ParseTextTier(soup)

\* Lines 115-117, t the table strategy's entries.
ParseTableTier(soup, t) ==
    IF t # <<>> THEN Parsed(t, <<"tables">>)
    ELSE ParseBlockTier(soup, _parse_from_structured_blocks(soup))

\* A mutated _parse_entries: the strategies' results are merged.
_parse_entries_merged(soup) ==
    Parsed(_parse_from_tables(soup) \o _parse_from_structured_blocks(soup)
               \o _parse_from_text_blocks(soup),
           <<"tables", "structured_blocks", "text_blocks">>)

\* _parse_entries: the list returned, and the strategies called, in order.
_parse_entries(soup) == ParseTableTier(soup, _parse_from_tables(soup))

----------------------------------------------------------------------------
(* urllib.parse: urlparse, urlunparse, urljoin, as lines 99-103 call them *)

LowerLetters == {LowerChar(c) : c \in UpperLetters}

\* urllib.parse.scheme_chars
SchemeChars == UpperLetters \cup LowerLetters \cup Digits \cup {"+", "-", "."}

HttpScheme == <<"h","t","t","p">>
HttpsScheme == <<"h","t","t","p","s">>
FtpScheme == <<"f","t","p">>

\* The schemes of the model that are in uses_relative, uses_netloc and uses_params
\* (all three lists hold "", http, https and ftp; none holds mailto).
UsesRelative == {<<>>, HttpScheme, HttpsScheme, FtpScheme}
UsesNetloc == UsesRelative
UsesParams == UsesRelative

ParseResult(scheme, netloc, path, params, query, fragment) ==
    [scheme |-> scheme, netloc |-> netloc, path |-> path, params |-> params,
     query |-> query, fragment |-> fragment]

\* _splitparams: semi is the index in url of the first ";" after the last "/", 0
\* if there is none or the scheme takes no parameters.
SplitParamsAt(scheme, netloc, url, query, fragment, semi) ==
    IF semi = 0 THEN ParseResult(scheme, netloc, url, <<>>, query, fragment)
    ELSE ParseResult(scheme, netloc, SubSeq(url, 1, semi - 1),
                     SubSeq(url, semi + 1, Len(url)), query, fragment)

SplitParamsAfter(scheme, netloc, url, query, fragment, lastSlash, semiRel) ==
    SplitParamsAt(scheme, netloc, url, query, fragment,
                  IF scheme \in UsesParams /\ semiRel # 0 THEN lastSlash + semiRel ELSE 0)

SplitParamsFrom(scheme, netloc, url, query, fragment, lastSlash) ==
    SplitParamsAfter(scheme, netloc, url, query, fragment, lastSlash,
                     FirstIn(SubSeq(url, lastSlash + 1, Len(url)), {";"}))

SplitParams(scheme, netloc, url, query, fragment) ==
    SplitParamsFrom(scheme, netloc, url, query, fragment, LastIndexOf(url, "/"))

\* urlsplit: url.split("?", 1), qmark the index of the first "?".
SplitQueryAt(scheme, netloc, url, fragment, qmark) ==
    IF qmark = 0 THEN SplitParams(scheme, netloc, url, <<>>, fragment)
    ELSE SplitParams(scheme, netloc, SubSeq(url, 1, qmark - 1),
                     SubSeq(url, qmark + 1, Len(url)), fragment)

SplitQuery(scheme, netloc, url, fragment) ==
    SplitQueryAt(scheme, netloc, url, fragment, FirstIn(url, {"?"}))

\* urlsplit: url.split("#", 1), hash the index of the first "#".
SplitFragmentAt(scheme, netloc, url, hash) ==
    IF hash = 0 THEN SplitQuery(scheme, netloc, url, <<>>)
    ELSE SplitQuery(scheme, netloc, SubSeq(url, 1, hash - 1), SubSeq(url, hash + 1, Len(url)))

SplitFragment(scheme, netloc, url) == SplitFragmentAt(scheme, netloc, url, FirstIn(url, {"#"}))

\* _splitnetloc: rest is what follows "//", delim the index of its first "/", "?" or "#".
SplitNetlocAt(scheme, rest, delim) ==
    IF delim = 0 THEN SplitFragment(scheme, rest, <<>>)
    ELSE SplitFragment(scheme, SubSeq(rest, 1, delim - 1), SubSeq(rest, delim, Len(rest)))

SplitNetloc(scheme, url) ==
    IF Len(url) >= 2 /\ url[1] = "/" /\ url[2] = "/"
    THEN SplitNetlocAt(scheme, SubSeq(url, 3, Len(url)),
                       FirstIn(SubSeq(url, 3, Len(url)), {"/", "?", "#"}))
    ELSE SplitFragment(scheme, <<>>, url)

\* urlsplit: the scheme, colon the index of the first ":".
SplitSchemeAt(url, default, colon) ==
    IF /\ colon > 1
       /\ url[1] \in UpperLetters \cup LowerLetters
       /\ \A i \in 1..(colon - 1) : url[i] \in SchemeChars
    THEN SplitNetloc(Lower(SubSeq(url, 1, colon - 1)), SubSeq(url, colon + 1, Len(url)))
    ELSE SplitNetloc(default, url)

\* urlparse(url, scheme=default)
urlparse(url, default) == SplitSchemeAt(url, default, FirstIn(url, {":"}))

\* urlunsplit, the last two steps: the query and the fragment.
UnsplitQuery(url, query, fragment) ==
    (IF query # <<>> THEN url \o <<"?">> \o query ELSE url)
    \o (IF fragment # <<>> THEN <<"#">> \o fragment ELSE <<>>)

\* urlunsplit, the first two steps: the netloc and the scheme.
UnsplitNetloc(scheme, netloc, url) ==
    (IF scheme # <<>> THEN scheme \o <<":">> ELSE <<>>)
    \o (IF \/ netloc # <<>>
           \/ /\ scheme # <<>>
              /\ scheme \in UsesNetloc
              /\ ~(Len(url) >= 2 /\ url[1] = "/" /\ url[2] = "/")
        THEN <<"/", "/">> \o netloc \o (IF url # <<>> /\ url[1] # "/" THEN <<"/">> ELSE <<>>)
             \o url
        ELSE url)

\* urlunparse((scheme, netloc, path, params, query, fragment))
urlunparse(p) ==
    UnsplitQuery(UnsplitNetloc(p.scheme, p.netloc,
                               IF p.params # <<>> THEN p.path \o <<";">> \o p.params
                               ELSE p.path),
                 p.query, p.fragment)

\* filter(None, segments)
RECURSIVE NonEmpty(_)
NonEmpty(segs) ==
    IF segs = <<>> THEN <<>>
    ELSE (IF Head(segs) # <<>> THEN <<Head(segs)>> ELSE <<>>) \o NonEmpty(Tail(segs))

Dot == <<".">>
DotDot == <<".", ".">>

\* The loop of urljoin that resolves "." and ".." segments.
RECURSIVE ResolveDots(_, _)
ResolveDots(resolved, segs) ==
    IF segs = <<>> THEN resolved
    ELSE IF Head(segs) = DotDot
         THEN ResolveDots(IF resolved = <<>> THEN <<>>
                          ELSE SubSeq(resolved, 1, Len(resolved) - 1), Tail(segs))
    ELSE IF Head(segs) = Dot THEN ResolveDots(resolved, Tail(segs))
    ELSE ResolveDots(Append(resolved, Head(segs)), Tail(segs))

\* "/".join(resolved_path) or "/"
JoinedPath(resolved_path) ==
    IF Join(resolved_path, "/") # <<>> THEN Join(resolved_path, "/") ELSE <<"/">>

\* urljoin from the segments on: the dots resolved and the path joined.
ResolvedPath(segments) ==
    JoinedPath(IF segments[Len(segments)] \in {Dot, DotDot}
               THEN Append(ResolveDots(<<>>, segments), <<>>)
               ELSE ResolveDots(<<>>, segments))

\* segments[1:-1] = filter(None, segments[1:-1])
FilterInner(joined) ==
    IF Len(joined) <= 2 THEN joined
    ELSE <<joined[1]>> \o NonEmpty(SubSeq(joined, 2, Len(joined) - 1)) \o <<joined[Len(joined)]>>

\* base_parts: bpath.split("/") without a last part that is not empty.
BaseParts(parts) ==
    IF parts[Len(parts)] # <<>> THEN SubSeq(parts, 1, Len(parts) - 1) ELSE parts

\* The segments of the joined path.
Segments(bpath, path) ==
    IF path # <<>> /\ path[1] = "/" THEN Split(path, "/")
    ELSE FilterInner(BaseParts(Split(bpath, "/")) \o Split(path, "/"))

\* urljoin, base and url parsed (b and u).
JoinParsed(base, url, b, u) ==
    IF u.scheme # b.scheme \/ u.scheme \notin UsesRelative THEN url
    ELSE IF u.scheme \in UsesNetloc /\ u.netloc # <<>> THEN urlunparse(u)
    ELSE IF u.path = <<>> /\ u.params = <<>>
         THEN urlunparse(ParseResult(u.scheme, b.netloc, b.path, b.params,
                                     IF u.query # <<>> THEN u.query ELSE b.query,
                                     u.fragment))
    ELSE urlunparse(ParseResult(u.scheme, b.netloc, ResolvedPath(Segments(b.path, u.path)),
                                u.params, u.query, u.fragment))

JoinBase(base, url, b) == JoinParsed(base, url, b, urlparse(url, b.scheme))

\* urljoin(base, url), base not empty
urljoin(base, url) == IF url = <<>> THEN base ELSE JoinBase(base, url, urlparse(base, <<>>))

----------------------------------------------------------------------------
(* MKBScraper *)

BASE_URL == <<"h","t","t","p","s",":","/","/","w","w","w",".","s","t","e","t","o","s","k","o","p",".","i","n","f","o">>
INDEX_PATH == <<"/","m","k","b">>

\* Lines 53-56, index_path given its leading slash.
ScraperOf(base_url, index_path, delayArg) ==
    [base_url |-> base_url,
     index_path |-> index_path,
     index_url |-> base_url \o index_path,
     delay |-> IF delayArg > 0 THEN delayArg ELSE 0]

\* MKBScraper.__init__
MKBScraper(base_url, index_path, delayArg) ==
    ScraperOf(RStrip(base_url, {"/"}),
              IF StartsWith(index_path, <<"/">>) THEN index_path ELSE <<"/">> \o index_path,
              delayArg)

\* The least of a set of strings.
LeastString(set) == CHOOSE x \in set : \A y \in set \ {x} : StrLess(x, y)

RECURSIVE SortedFrom(_, _)
SortedFrom(set, least) ==
    <<least>> \o (IF set = {least} THEN <<>>
                  ELSE SortedFrom(set \ {least}, LeastString(set \ {least})))

\* sorted(links) for a set of strings
SortedStrings(set) == IF set = {} THEN <<>> ELSE SortedFrom(set, LeastString(set))

\* A mutated filter: the link to the index page itself is not skipped.
LinkOfKeepRoot(parsed, path, netloc, root) ==
    IF parsed.scheme \notin {HttpScheme, HttpsScheme} THEN {}
    ELSE IF parsed.netloc # netloc THEN {}
    ELSE IF ~StartsWith(path, root) THEN {}
    ELSE {parsed.scheme \o <<":", "/", "/">> \o parsed.netloc \o path}

\* Lines 101-110: `parsed` the parsed absolute URL, `path` its path without trailing
\* slashes, `netloc` the base URL's, `root` the index path without trailing slashes.
LinkOf(parsed, path, netloc, root) ==
    IF parsed.scheme \notin {HttpScheme, HttpsScheme} THEN {}
    ELSE IF parsed.netloc # netloc THEN {}
    ELSE IF path \in {root, root \o <<"/">>} THEN {}
    ELSE IF ~StartsWith(path, root) THEN {}
    ELSE {parsed.scheme \o <<":", "/", "/">> \o parsed.netloc \o path}

\* Lines 99-110, for a parsed absolute URL.
LinkOfParsed(self, parsed) ==
    LinkOf(parsed, RStrip(parsed.path, {"/"}), urlparse(self.base_url, <<>>).netloc,
           RStrip(self.index_path, {"/"}))

\* Lines 96-110, for a stripped href.
LinkOfHref(self, href) ==
    IF href = <<>> \/ StartsWith(href, <<"#">>) THEN {}
    ELSE LinkOfParsed(self, urlparse(urljoin(self.index_url, href), <<>>))

\* The body of _discover_detail_pages's loop: the links one anchor adds.
DiscoverLink(self, rawHref) == LinkOfHref(self, Strip(rawHref))

_discover_detail_pages(self, soup) ==
    SortedStrings(UNION {DiscoverLink(self, soup.anchors[i]) : i \in 1..Len(soup.anchors)})

----------------------------------------------------------------------------
(* Texts of the pages the model draws its inputs from *)

c_A00 == <<"A","0","0">>
c_A01 == <<"A","0","1">>
c_B00 == <<"B","0","0">>
c_B00_1 == <<"B","0","0",".","1">>
c_AB12_3A == <<"A","B","1","2",".","3","A">>
c_A0 == <<"A","0">>
c_1A0 == <<"1","A","0">>
c_A000 == <<"A","0","0","0">>
c_A9 == <<"A","9">>
c_A10 == <<"A","1","0">>
c_foo == <<"f","o","o">>
c_A00_dot == <<"A","0","0",".">>
Kolera == <<"K","o","l","e","r","a">>
Colera == <<"C","o","l","e","r","a">>
Cholera == <<"C","h","o","l","e","r","a">>
Tifus == <<"T","i","f","u","s">>
Herpes == <<"H","e","r","p","e","s">>
HerpesSimpleks == <<"H","e","r","p","e","s"," ","s","i","m","p","l","e","k","s">>
HerpesSimplex == <<"H","e","r","p","e","s"," ","s","i","m","p","l","e","x">>
SifraHeader == <<"S_caron","i","f","r","a">>
NazivHeader == <<"N","a","z","i","v">>
LatinskiHeader == <<"L","a","t","i","n","s","k","i">>

BoundedSeq(S, n) == UNION {[1..k -> S] : k \in 0..n}

Span(class, text) == [class |-> <<class>>, text |-> text]
Tag(name, class, desc) == [name |-> name, class |-> class, desc |-> desc]

\* A table with a header row, rows whose first cell is no code, a one-cell row and
\* two data rows.
SiteTable ==
    << <<SifraHeader, NazivHeader, LatinskiHeader>>,
       <<c_A000, Tifus>>,
       <<c_B00_1, HerpesSimpleks, HerpesSimplex>>,
       <<c_A0>>,
       <<c_A00, Kolera>> >>

\* Tags: a container for A00 with no name, one whose code is no code, a tag that is
\* no container, and a list item for AB12.3A.
SiteTags ==
    << Tag("div", << <<"m","k","b","-","i","t","e","m">> >>,
           << Span(<<"s","i","f","r","a">>, c_A00), Span(<<"n","a","z","i","v">>, <<>>), Span(<<"l","a","t","i","n">>, Cholera) >>),
       Tag("li", << <<"m","k","b">> >>,
           << Span(<<"c","o","d","e">>, c_1A0), Span(<<"o","p","i","s">>, Tifus) >>),
       Tag("div", << <<"o","t","h","e","r">> >>,
           << Span(<<"s","i","f","r","a">>, c_A01), Span(<<"n","a","z","i","v">>, Tifus) >>),
       Tag("li", << <<"M","K","B","-","r","o","w">> >>,
           << Span(<<"o","z","n","a","k","a">>, c_AB12_3A), Span(<<"o","p","i","s">>, Tifus) >>) >>

SiteText == <<"f","o","o"," ","b","a","r","\n","A","0","1"," "," "," ","C","o","l","e","r","a"," "," "," ","C","h","o","l","e","r","a","\n","A","0"," ","x","\n","A","0","0"," ","C","o","l","e","r","a">>

\* What a page of the site may hold: any of the three kinds of content, or none.
SiteContents ==
    {Soup(t, g, x, <<>>) :
        t \in {<<>>, <<SiteTable>>}, g \in {<<>>, SiteTags}, x \in {<<>>, SiteText}}

\* The links an index page may carry.
SiteHrefs == {<<"/","m","k","b","/","a">>, <<"/","m","k","b","/","b","?","p","a","g","e","=","2">>, <<"/","m","k","b","/">>}

----------------------------------------------------------------------------
(* scrape_to_csv: one run.  Time is counted in units of 0.1 s. *)

\* Values of the --delay argument: one below zero, and the default 0.2 s.
DelayArgs == {-1, 2}

\* Longest list of anchors on the index page.
MaxLinks == 2

IndexPages ==
    {Soup(c.tables, c.tags, c.text, a) : c \in SiteContents, a \in BoundedSeq(SiteHrefs, MaxLinks)}

\* scrape_to_csv builds MKBScraper(delay=delay).
Self == MKBScraper(BASE_URL, INDEX_PATH, delay)

FetchRecord(url, ok) == [url |-> url, ok |-> ok, gap |-> slept]
ParseRecord(soup, parsed) == [soup |-> soup, entries |-> parsed.entries, invoked |-> parsed.invoked]

\* A mutated _fetch: an error is swallowed and the caller goes on from where it was.
OnFetchErrorContinue(at) == at

\* _fetch raises (session.get or raise_for_status); neither scrape nor scrape_to_csv
\* catches: the run ends at main's handler.
OnFetchError(at) == "failed"

\* The header row and one row per entry, as scrape_to_csv writes them.
CsvHeader == <<"code", "description_serbian", "description_latin">>
CsvRows(es) == <<CsvHeader>> \o [i \in 1..Len(es) |-> <<es[i].code, es[i].serbian, es[i].latin>>]

Init ==
    /\ pc = "start"
    /\ delay \in {MKBScraper(BASE_URL, INDEX_PATH, d).delay : d \in DelayArgs}
    /\ entries = <<>>
    /\ pages = <<>>
    /\ idx = 0
    /\ fetchLog = <<>>
    /\ slept = 0
    /\ parseLog = <<>>
    /\ result = <<>>
    /\ csv = <<>>
    /\ input = <<>>
    /\ output = <<>>

\* scrape, lines 66-74: the index page is fetched, parsed and searched for links.
ScrapeIndex ==
    /\ pc = "start"
    /\ \E soup \in IndexPages :
        /\ fetchLog' = Append(fetchLog, FetchRecord(Self.index_url, TRUE))
        /\ slept' = 0
        /\ parseLog' = Append(parseLog, ParseRecord(soup, _parse_entries(soup)))
        /\ entries' = entries \o parseLog'[Len(parseLog')].entries
        /\ pages' = _discover_detail_pages(Self, soup)
    /\ idx' = 1
    /\ pc' = "loop"
    /\ UNCHANGED <<delay, result, csv, input, output>>

\* scrape, line 67: the fetch of the index page raises.
ScrapeIndexFails ==
    /\ pc = "start"
    /\ fetchLog' = Append(fetchLog, FetchRecord(Self.index_url, FALSE))
    /\ pc' = OnFetchError(pc)
    /\ UNCHANGED <<delay, entries, pages, idx, slept, parseLog, result, csv, input, output>>

\* scrape, lines 75-82: one iteration of the loop over the detail pages.
ScrapeDetail ==
    /\ pc = "loop"
    /\ idx <= Len(pages)
    /\ \E soup \in SiteContents :
        /\ fetchLog' = Append(fetchLog, FetchRecord(pages[idx], TRUE))
        /\ parseLog' = Append(parseLog, ParseRecord(soup, _parse_entries(soup)))
        /\ entries' = entries \o parseLog'[Len(parseLog')].entries
    /\ slept' = IF delay # 0 THEN delay ELSE 0
    /\ idx' = idx + 1
    /\ UNCHANGED <<pc, delay, pages, result, csv, input, output>>

\* scrape, line 77: the fetch of a detail page raises.
ScrapeDetailFails ==
    /\ pc = "loop"
    /\ idx <= Len(pages)
    /\ fetchLog' = Append(fetchLog, FetchRecord(pages[idx], FALSE))
    /\ pc' = OnFetchError(pc)
    /\ UNCHANGED <<delay, entries, pages, idx, slept, parseLog, result, csv, input, output>>

\* scrape, lines 84-86: the loop is over; the entries are deduplicated, sorted and
\* returned.
ScrapeReturn ==
    /\ pc = "loop"
    /\ idx > Len(pages)
    /\ result' = <<SortedEntries(_deduplicate(entries))>>
    /\ pc' = "scraped"
    /\ UNCHANGED <<delay, entries, pages, idx, fetchLog, slept, parseLog, csv, input, output>>

\* scrape_to_csv, lines 206-212: the file is opened and written.
WriteCsv ==
    /\ pc = "scraped"
    /\ csv' = <<CsvRows(result[1])>>
    /\ pc' = "done"
    /\ UNCHANGED <<delay, entries, pages, idx, fetchLog, slept, parseLog, result, input, output>>

Next ==
    \/ ScrapeIndex
    \/ ScrapeIndexFails
    \/ ScrapeDetail
    \/ ScrapeDetailFails
    \/ ScrapeReturn
    \/ WriteCsv

Spec == Init /\ [][Next]_vars

----------------------------------------------------------------------------
(* Properties of a run (specification Spec) *)

\* The code pattern as the data model states it: 1-2 uppercase letters, 2 digits,
\* then nothing or "." and 1-4 uppercase alphanumerics.
CodePattern(v) ==
    \E letters \in {1, 2} : \E suffix \in 0..4 :
        /\ Len(v) = letters + 2 + (IF suffix = 0 THEN 0 ELSE 1 + suffix)
        /\ \A i \in 1..Len(v) :
            IF i <= letters THEN v[i] \in UpperLetters
            ELSE IF i <= letters + 2 THEN v[i] \in Digits
            ELSE IF i = letters + 3 THEN v[i] = "."
            ELSE v[i] \in UpperLetters \cup Digits

CodesOf(es) == [i \in 1..Len(es) |-> es[i].code]
CodeSet(es) == {es[i].code : i \in 1..Len(es)}

AllStrategies == <<"tables", "structured_blocks", "text_blocks">>

\* C2: when scrape has returned, its result holds exactly one record per distinct
\* code extracted on any page, none missing and none twice, in ascending order of
\* the canonical sort key.
C2_OneRecordPerCodeSorted ==
    pc \in {"scraped", "done"} =>
        /\ CodeSet(result[1]) = UNION {CodeSet(parseLog[k].entries) : k \in 1..Len(parseLog)}
        /\ \A i, j \in 1..Len(result[1]) : i # j => result[1][i].code # result[1][j].code
        /\ \A i, j \in 1..Len(result[1]) :
            i < j => KeyLess(_code_sort_key(result[1][i].code), _code_sort_key(result[1][j].code))

\* Three pages were scraped, a code was extracted more than once, the entries were
\* not extracted in order, and scrape returned four or more records.
C2_Witness ==
    /\ pc = "scraped"
    /\ Len(parseLog) = 3
    /\ Len(result[1]) >= 4
    /\ Len(entries) > Len(result[1])
    /\ CodesOf(entries) # CodesOf(SortedEntries(entries))

\* What _parse_entries must have returned and called for a page, given what each
\* strategy yields on it.
FirstNonEmpty(rec, t, b, x) ==
    /\ t # <<>> => rec.invoked = <<"tables">> /\ rec.entries = t
    /\ (t = <<>> /\ b # <<>>) =>
            rec.invoked = <<"tables", "structured_blocks">> /\ rec.entries = b
    /\ (t = <<>> /\ b = <<>>) => rec.invoked = AllStrategies /\ rec.entries = x

\* C3: for every page, _parse_entries calls the strategies in the order table,
\* structured-block, free-text and returns, unmerged, the result of the first that
\* is not empty; no strategy after that one is called.  (parseLog only grows: every
\* record of it is the last one in the state that follows its page's parse.)
C3_FirstNonEmptyStrategyOnly ==
    parseLog # <<>> =>
        FirstNonEmpty(parseLog[Len(parseLog)],
                      _parse_from_tables(parseLog[Len(parseLog)].soup),
                      _parse_from_structured_blocks(parseLog[Len(parseLog)].soup),
                      _parse_from_text_blocks(parseLog[Len(parseLog)].soup))

\* One page's table entries shadowed its blocks and lines, another page's blocks
\* shadowed its lines, and a third page fell back to the free text.
C3_Witness ==
    /\ \E k \in 1..Len(parseLog) :
        /\ parseLog[k].invoked = <<"tables">>
        /\ _parse_from_structured_blocks(parseLog[k].soup) # <<>>
        /\ _parse_from_text_blocks(parseLog[k].soup) # <<>>
    /\ \E k \in 1..Len(parseLog) :
        /\ parseLog[k].invoked = <<"tables", "structured_blocks">>
        /\ _parse_from_text_blocks(parseLog[k].soup) # <<>>
    /\ \E k \in 1..Len(parseLog) :
        /\ parseLog[k].invoked = AllStrategies
        /\ parseLog[k].entries # <<>>

\* C7: a failed fetch, of the index page or of any detail page, ends the run: it is
\* the last fetch, scrape returns nothing and no file is written, whatever was
\* extracted before; and no URL is fetched twice.
C7_FetchFailureIsFatal ==
    /\ \A k \in 1..Len(fetchLog) : ~fetchLog[k].ok => (k = Len(fetchLog) /\ pc = "failed")
    /\ pc = "failed" => (result = <<>> /\ csv = <<>>)
    /\ (result # <<>> \/ csv # <<>>) => \A k \in 1..Len(fetchLog) : fetchLog[k].ok
    /\ \A j, k \in 1..Len(fetchLog) : j # k => fetchLog[j].url # fetchLog[k].url

\* The fetch of the second detail page failed after entries had been extracted from
\* the pages before it.
C7_Witness ==
    /\ pc = "failed"
    /\ Len(fetchLog) = 3
    /\ ~fetchLog[3].ok
    /\ entries # <<>>
    /\ result = <<>>
    /\ csv = <<>>

\* C8: every entry a strategy produces, and so every entry of the accumulator, of
\* the dedup map and of scrape's result, has a code matching the code pattern (which
\* accepts A00, B00.1, AB12.3A and rejects A0, 1A0, A000); a row, block or line
\* whose code fails it is skipped, and those after it are still extracted.
C8_CodesMatchPattern ==
    /\ \A k \in 1..Len(parseLog) : \A c \in CodeSet(parseLog[k].entries) : CodePattern(c)
    /\ \A c \in CodeSet(entries) : CodePattern(c)
    /\ \A c \in CodeSet(_deduplicate(entries)) : CodePattern(c)
    /\ result # <<>> => \A c \in CodeSet(result[1]) : CodePattern(c)
    /\ \A c \in {c_A00, c_B00_1, c_AB12_3A} : _is_code(c) /\ CodeGroupMatches(c)
    /\ \A c \in {c_A0, c_1A0, c_A000} : ~_is_code(c) /\ ~CodeGroupMatches(c)
    /\ \A k \in 1..Len(parseLog) :
        /\ parseLog[k].soup.tables = <<SiteTable>> =>
                CodesOf(parseLog[k].entries) = <<c_B00_1, c_A00>>
        /\ (parseLog[k].soup.tags = SiteTags /\ Len(parseLog[k].invoked) = 2) =>
                CodesOf(parseLog[k].entries) = <<c_A00, c_AB12_3A>>
        /\ (parseLog[k].soup.text = SiteText /\ Len(parseLog[k].invoked) = 3) =>
                CodesOf(parseLog[k].entries) = <<c_A01, c_A00>>

\* Each strategy has produced the entries of a page that also holds fragments with
\* no valid code, and scrape has returned.
C8_Witness ==
    /\ pc = "scraped"
    /\ \E k \in 1..Len(parseLog) :
        parseLog[k].invoked = <<"tables">> /\ parseLog[k].soup.tables = <<SiteTable>>
    /\ \E k \in 1..Len(parseLog) :
        Len(parseLog[k].invoked) = 2 /\ parseLog[k].soup.tags = SiteTags
    /\ \E k \in 1..Len(parseLog) :
        Len(parseLog[k].invoked) = 3 /\ parseLog[k].soup.text = SiteText

\* C9: the pages are fetched one at a time, the index page first and then the detail
\* pages in sorted order, and before every fetch but the first the configured delay
\* has elapsed since the fetch before it.
C9_DelayBetweenFetches ==
    \A k \in 1..Len(fetchLog) :
        /\ fetchLog[k].url = (IF k = 1 THEN Self.index_url ELSE pages[k - 1])
        /\ k >= 2 => fetchLog[k].gap >= delay

----------------------------------------------------------------------------
(* Specifications of single functions: the argument is drawn, the function is
   called once on it. *)

\* The variables of a run, which a function specification leaves alone.
runVars == <<delay, entries, pages, idx, fetchLog, slept, parseLog, result, csv>>

NoRun ==
    /\ delay = 0
    /\ entries = <<>>
    /\ pages = <<>>
    /\ idx = 0
    /\ fetchLog = <<>>
    /\ slept = 0
    /\ parseLog = <<>>
    /\ result = <<>>
    /\ csv = <<>>

Call(at, value) ==
    /\ pc = at
    /\ output = <<>>
    /\ output' = <<value>>
    /\ pc' = "returned"
    /\ UNCHANGED <<input, runVars>>

(* _deduplicate *)

\* Longest list of entries given to _deduplicate.
MaxEntries == 2

EntryPool ==
    {MKBEntry(c, sr, la) : c \in {c_A00, c_B00}, sr \in {<<>>, Kolera, Colera},
                           la \in {<<>>, Cholera}}

InitDedup ==
    /\ pc = "deduplicate"
    /\ input \in BoundedSeq(EntryPool, MaxEntries)
    /\ output = <<>>
    /\ NoRun

Deduplicate == Call("deduplicate", _deduplicate(input))

SpecDedup == InitDedup /\ [][Deduplicate]_vars

\* Index of the first entry of es with this code.
FirstWith(es, code) == CHOOSE i \in 1..Len(es) : es[i].code = code /\ \A j \in 1..(i - 1) : es[j].code # code

\* C1: the record _deduplicate returns for a code carries the first occurrence's
\* primary and secondary description wherever that one is not empty, whatever the
\* later entries with the code hold; later entries fill only the empty fields.
C1_FirstSeenValuesKept ==
    output # <<>> =>
        \A k \in 1..Len(output[1]) :
            /\ input[FirstWith(input, output[1][k].code)].serbian # <<>> =>
                    output[1][k].serbian = input[FirstWith(input, output[1][k].code)].serbian
            /\ input[FirstWith(input, output[1][k].code)].latin # <<>> =>
                    output[1][k].latin = input[FirstWith(input, output[1][k].code)].latin

(* _code_sort_key and sorted *)

\* Longest list of codes sorted.
MaxCodes == 3

CodePool == {c_A9, c_A10, c_A00, c_B00_1, c_AB12_3A, c_foo, c_A00_dot}

InitSort ==
    /\ pc = "sort"
    /\ input \in BoundedSeq({MKBEntry(c, <<>>, <<>>) : c \in CodePool}, MaxCodes)
    /\ output = <<>>
    /\ NoRun

Sort == Call("sort", SortedEntries(input))

SpecSort == InitSort /\ [][Sort]_vars

\* The codes of CodePool in canonical order: by letters, then by number, then by
\* suffix, the codes that do not parse placed by their whole text.
CanonicalOrder == <<c_A00, c_A9, c_A10, c_A00_dot, c_AB12_3A, c_B00_1, c_foo>>

Rank(code) == CHOOSE i \in 1..Len(CanonicalOrder) : CanonicalOrder[i] = code

Count(es, e) == Cardinality({i \in 1..Len(es) : es[i] = e})

\* The key of each code of CodePool, as the claim decomposes it.
ClaimedKey(code) ==
    CASE code = c_A9 -> SortKey(<<"A">>, 9, <<>>)
      [] code = c_A10 -> SortKey(<<"A">>, 10, <<>>)
      [] code = c_A00 -> SortKey(<<"A">>, 0, <<>>)
      [] code = c_B00_1 -> SortKey(<<"B">>, 0, <<"1">>)
      [] code = c_AB12_3A -> SortKey(<<"A", "B">>, 12, <<"3", "A">>)
      [] code = c_foo -> SortKey(c_foo, 0, <<>>)
      [] code = c_A00_dot -> SortKey(c_A00_dot, 0, <<>>)

\* C6: the sort key of a code is (letters, integer value of the digits, suffix after
\* the "." or ""), and (code, 0, "") for a code that does not parse; keys compare by
\* letters, then number, then suffix, so that A9 sorts before A10; any two keys
\* compare, and sorting any mix of codes returns them all in that order.
C6_CanonicalSortKey ==
    /\ \A a \in CodeSet(input) : _code_sort_key(a) = ClaimedKey(a)
    /\ \A a, b \in CodeSet(input) :
        /\ KeyLess(_code_sort_key(a), _code_sort_key(b)) <=> Rank(a) < Rank(b)
        /\ a # b => (KeyLess(_code_sort_key(a), _code_sort_key(b))
                        \/ KeyLess(_code_sort_key(b), _code_sort_key(a)))
    /\ output # <<>> =>
        /\ Len(output[1]) = Len(input)
        /\ \A i \in 1..Len(input) : Count(output[1], input[i]) = Count(input, input[i])
        /\ \A i, j \in 1..Len(output[1]) :
            i < j => Rank(output[1][i].code) <= Rank(output[1][j].code)

\* A10 was given before A9 together with a code that does not parse, and the sorted
\* list has A9 first.
C6_Witness ==
    /\ output # <<>>
    /\ CodesOf(input) = <<c_foo, c_A10, c_A9>>
    /\ CodesOf(output[1]) = <<c_A9, c_A10, c_foo>>

(* _discover_detail_pages *)

\* Longest list of anchors given to _discover_detail_pages.
MaxAnchors == 2

HrefPool ==
    {<<"/","m","k","b","/","a">>,
     <<"a","0","0">>,
     <<"/","m","k","b","/">>,
     <<"h","t","t","p","s",":","/","/","w","w","w",".","s","t","e","t","o","s","k","o","p",".","i","n","f","o","/","m","k","b">>,
     <<"h","t","t","p","s",":","/","/","w","w","w",".","s","t","e","t","o","s","k","o","p",".","i","n","f","o","/","m","k","b","/","a","?","x","=","1","#","f">>,
     <<"h","t","t","p",":","/","/","w","w","w",".","s","t","e","t","o","s","k","o","p",".","i","n","f","o","/","m","k","b","/","b","/">>,
     <<"h","t","t","p","s",":","/","/","x",".","o","r","g","/","m","k","b","/","a">>,
     <<"/","o","t","h","e","r">>,
     <<"#","t","o","p">>,
     <<"m","a","i","l","t","o",":","a","@","b">>,
     <<"/","/","w","w","w",".","s","t","e","t","o","s","k","o","p",".","i","n","f","o","/","m","k","b","/","c",";","p","=","1">>,
     <<" ","/","m","k","b","/","a","\n">>,
     <<".",".","/","m","k","b","/","d">>,
     <<"/","m","k","b","x">>,
     <<"?","p","a","g","e","=","2">>,
     <<"f","t","p",":","/","/","w","w","w",".","s","t","e","t","o","s","k","o","p",".","i","n","f","o","/","m","k","b","/","a">>}

\* Values of the index_path argument: the default, and one with no leading and
\* with a trailing slash.
IndexPaths == {INDEX_PATH, <<"m","k","b","/">>}

InitLinks ==
    /\ pc = "discover"
    /\ input \in [anchors : BoundedSeq(HrefPool, MaxAnchors), index_path : IndexPaths]
    /\ output = <<>>
    /\ NoRun

DiscoverDetailPages ==
    Call("discover", _discover_detail_pages(MKBScraper(BASE_URL, input.index_path, 0),
                                            Soup(<<>>, <<>>, <<>>, input.anchors)))

SpecLinks == InitLinks /\ [][DiscoverDetailPages]_vars

\* The index page's URL under both schemes; the index path is /mkb once its
\* trailing slashes are trimmed, for both values of IndexPaths.
HttpsIndex == <<"h","t","t","p","s",":","/","/","w","w","w",".","s","t","e","t","o","s","k","o","p",".","i","n","f","o","/","m","k","b">>
HttpIndex == <<"h","t","t","p",":","/","/","w","w","w",".","s","t","e","t","o","s","k","o","p",".","i","n","f","o","/","m","k","b">>

UnderIndex(url, index) ==
    /\ StartsWith(url, index)
    /\ url # index
    /\ url # index \o <<"/">>

\* C4: _discover_detail_pages returns a sorted list without duplicates of URLs
\* scheme://host/path with no query and no fragment; none is the index path itself,
\* with or without a trailing slash; every scheme is http or https, every host the
\* base URL's, and every path starts with the index path.
C4_DetailPagesInScope ==
    output # <<>> =>
        /\ \A i, j \in 1..Len(output[1]) : i < j => StrLess(output[1][i], output[1][j])
        /\ \A i \in 1..Len(output[1]) :
            /\ UnderIndex(output[1][i], HttpsIndex) \/ UnderIndex(output[1][i], HttpIndex)
            /\ \A k \in 1..Len(output[1][i]) : output[1][i][k] \notin {"?", "#"}

\* Two anchors were given, one to the index page itself and one to a detail page,
\* and only the detail page was returned.
C4_Witness ==
    /\ output # <<>>
    /\ Len(input.anchors) = 2
    /\ input.anchors[1] = HttpsIndex
    /\ Len(output[1]) = 1

(* The three extraction strategies *)

\* Longest list of rows, of tags or of lines given to a strategy.
MaxFragments == 2

\* The row and the block of the tests (tests/test_scraper.py), and the same without
\* labels.
LabelledRow == <<<<"S_caron","i","f","r","a",":"," ","B","0","0">>, <<"N","a","z","i","v",":"," ","H","e","r","p","e","s"," ","s","i","m","p","l","e","k","s">>, <<"L","a","t","i","n","s","k","i",":"," ","H","e","r","p","e","s"," ","s","i","m","p","l","e","x">>>>
PlainRow == <<<<"B","0","0">>, HerpesSimpleks, HerpesSimplex>>
LabelledBlock ==
    Tag("div", <<<<"m","k","b","-","i","t","e","m">>>>,
        <<Span(<<"s","i","f","r","a">>, <<"S_caron","i","f","r","a",":"," ","A","0","0">>), Span(<<"n","a","z","i","v">>, <<"O","p","i","s",":"," ","K","o","l","e","r","a">>),
          Span(<<"l","a","t","i","n">>, <<"L","a","t","i","n","s","k","i",":"," ","C","h","o","l","e","r","a">>)>>)
PlainBlock ==
    Tag("div", <<<<"m","k","b","-","i","t","e","m">>>>,
        <<Span(<<"s","i","f","r","a">>, c_A00), Span(<<"n","a","z","i","v">>, Kolera), Span(<<"l","a","t","i","n">>, Cholera)>>)

RowPool ==
    {LabelledRow, PlainRow,
     <<c_A000, Tifus>>,
     <<c_A00>>,
     <<<<" ","A","0","1","\n">>, <<"T","i","f","u","s"," "," ","&","a","m","p",";","\t","x">>>>}

TagPool ==
    {LabelledBlock, PlainBlock,
     Tag("li", <<<<"m","k","b">>>>, <<Span(<<"c","o","d","e">>, c_1A0), Span(<<"o","p","i","s">>, Tifus)>>),
     Tag("span", <<<<"m","k","b">>>>, <<Span(<<"c","o","d","e">>, c_A01), Span(<<"o","p","i","s">>, Tifus)>>)}

LineWideGaps == <<"A","0","0"," "," "," ","K","o","l","e","r","a"," "," "," ","C","h","o","l","e","r","a">>
LineThinPipe == <<"A","0","0"," ","K","o","l","e","r","a"," ","|"," ","C","h","o","l","e","r","a">>
LineWidePipe == <<"A","0","0"," ","K","o","l","e","r","a"," "," ","|"," "," ","C","h","o","l","e","r","a">>
LineNoCode == <<"f","o","o"," ","b","a","r">>
LineThreeParts == <<"B","0","0",".","1"," "," ","H","e","r","p","e","s"," ","s","i","m","p","l","e","k","s"," ","\t"," ","H","e","r","p","e","s"," ","s","i","m","p","l","e","x"," "," "," ","T","i","f","u","s">>
LineNoGap == <<"A","B","1","2",".","3","A"," ","T","i","f","u","s">>
LineBadCode == <<"A","0","0","0"," ","T","i","f","u","s">>

LinePool ==
    {LineWideGaps, LineThinPipe, LineWidePipe, LineNoCode, LineThreeParts, LineNoGap,
     LineBadCode}

Fragments(kind, pool) == {[kind |-> kind, frags |-> f] : f \in BoundedSeq(pool, MaxFragments)}

InitExtract ==
    /\ pc = "extract"
    /\ input \in Fragments("tables", RowPool) \cup Fragments("structured_blocks", TagPool)
                    \cup Fragments("text_blocks", LinePool)
    /\ output = <<>>
    /\ NoRun

\* _parse_from_tables on a page whose one table has the rows drawn.
ParseFromTables ==
    /\ input.kind = "tables"
    /\ Call("extract", _parse_from_tables(Soup(<<input.frags>>, <<>>, <<>>, <<>>)))

\* _parse_from_structured_blocks on a page whose tags are those drawn.
ParseFromStructuredBlocks ==
    /\ input.kind = "structured_blocks"
    /\ Call("extract", _parse_from_structured_blocks(Soup(<<>>, input.frags, <<>>, <<>>)))

\* _parse_from_text_blocks on a page whose text is the lines drawn.
ParseFromTextBlocks ==
    /\ input.kind = "text_blocks"
    /\ Call("extract", _parse_from_text_blocks(Soup(<<>>, <<>>, Join(input.frags, "\n"), <<>>)))

NextExtract ==
    \/ ParseFromTables
    \/ ParseFromStructuredBlocks
    \/ ParseFromTextBlocks

SpecExtract == InitExtract /\ [][NextExtract]_vars

Extracted(kind, frags) == output # <<>> /\ input.kind = kind /\ input.frags = frags

\* C5: the table strategy and the structured-block strategy strip a leading label
\* from each field before the code check and before the field is stored, and leave
\* text without a label as it is: the labelled row yields (B00, Herpes simpleks,
\* Herpes simplex) and the labelled block (A00, Kolera, Cholera).
C5_LabelsStripped ==
    /\ Extracted("tables", <<LabelledRow>>) =>
            output[1] = <<MKBEntry(<<"B","0","0">>, HerpesSimpleks, HerpesSimplex)>>
    /\ Extracted("structured_blocks", <<LabelledBlock>>) =>
            output[1] = <<MKBEntry(c_A00, Kolera, Cholera)>>
    /\ Extracted("tables", <<PlainRow>>) =>
            output[1] = <<MKBEntry(<<"B","0","0">>, HerpesSimpleks, HerpesSimplex)>>
    /\ Extracted("structured_blocks", <<PlainBlock>>) =>
            output[1] = <<MKBEntry(c_A00, Kolera, Cholera)>>

\* The entry each line of LinePool yields, as claim C10 has it: <<>> for none.
ClaimedEntry(line) ==
    CASE line = LineWideGaps -> <<MKBEntry(c_A00, Kolera, Cholera)>>
      [] line = LineThinPipe -> <<MKBEntry(c_A00, Kolera, Cholera)>>
      [] line = LineWidePipe -> <<MKBEntry(c_A00, Kolera, Cholera)>>
      [] line = LineNoCode -> <<>>
      [] line = LineThreeParts -> <<MKBEntry(c_B00_1, HerpesSimpleks, HerpesSimplex)>>
      [] line = LineNoGap -> <<MKBEntry(c_AB12_3A, Tifus, <<>>)>>
      [] line = LineBadCode -> <<>>

\* The entry each line yields when the pipe is a delimiter only between two runs of
\* two or more whitespace characters.
AmendedEntry(line) ==
    IF line = LineThinPipe THEN <<MKBEntry(c_A00, <<"K","o","l","e","r","a"," ","|"," ","C","h","o","l","e","r","a">>, <<>>)>>
    ELSE ClaimedEntry(line)

RECURSIVE Flatten(_)
Flatten(ss) == IF ss = <<>> THEN <<>> ELSE Head(ss) \o Flatten(Tail(ss))

HasGap(s) == \E i \in 1..(Len(s) - 1) : s[i] \in Whitespace /\ s[i + 1] \in Whitespace

\* C10 as claimed: every line made of a code, whitespace and a remainder yields one
\* entry, the remainder split on runs of two or more spaces or on " | " into the
\* primary and the secondary description; a line with no leading code yields none.
C10_SplitOnGapsOrPipe ==
    (output # <<>> /\ input.kind = "text_blocks") =>
        output[1] = Flatten([i \in 1..Len(input.frags) |-> ClaimedEntry(input.frags[i])])

\* C10 as amended: the remainder is split on runs of two or more whitespace
\* characters, a pipe between two such runs being part of the delimiter; the first
\* two parts are the descriptions and further parts are dropped.  "A00 Kolera |
\* Cholera" is not split and yields (A00, "Kolera | Cholera", "").
C10_SplitOnWideGaps ==
    (output # <<>> /\ input.kind = "text_blocks") =>
        /\ output[1] = Flatten([i \in 1..Len(input.frags) |-> AmendedEntry(input.frags[i])])
        /\ \A k \in 1..Len(output[1]) :
            ~HasGap(output[1][k].serbian) /\ ~HasGap(output[1][k].latin)

\* A line with a pipe between wide gaps and a line with a pipe between single
\* spaces were parsed.
C10_Witness == Extracted("text_blocks", <<LineWidePipe, LineThinPipe>>) /\ Len(output[1]) = 2

====
